---- MODULE Spec2Model ----
(***************************************************************************)
(* Model of lab-reader-bot.                                                *)
(*                                                                         *)
(*   src/api/index.py  the webhook deployment: webhook() deduplicates      *)
(*                     updates and dispatches them to start,               *)
(*                     button_callback and handle_file.                    *)
(*   src/bot.py        the polling deployment: a conversation handler with *)
(*                     the states CHOOSING_TYPE, CHOOSING_LANGUAGE and     *)
(*                     UPLOADING.                                          *)
(*                                                                         *)
(* Representation.                                                         *)
(*   - A callback payload (query.data) is held as the list of its          *)
(*     "_"-separated segments: "task_analysis" is <<"task", "analysis">>.  *)
(*   - context.user_data of the one user that is modelled is a record      *)
(*     [task, lang]; a key that is not in the dict holds Absent.           *)
(*   - Every call to Telegram, to the durable store or to the analysis     *)
(*     service can fail; what happens is an input of the handler (env).    *)
(*   - An outbound message is a record [text, keyboard]; its text is a     *)
(*     tuple naming the message and the values formatted into it.          *)
(*                                                                         *)
(* Specifications.                                                         *)
(*   Spec            the handlers of index.py, one update at a time        *)
(*   SpecWebhook     webhook(): deduplication and dispatch, one call at a  *)
(*                   time                                                  *)
(*   SpecBot         the conversation of bot.py                            *)
(*   SpecConcurrent  webhook() calls that interleave at their awaits       *)
(*   SpecInFlight    handle_file suspended at its request to the analysis  *)
(*                   service while other updates of the user are handled   *)
(***************************************************************************)
EXTENDS Integers, Sequences, FiniteSets, TLC

VARIABLES
    processed_updates,  \* index.py: set of update ids seen by this container
    initialized,        \* index.py: tg_app.initialize() has completed
    accepted,           \* history: the distinct ids webhook() accepted, latest last
    response,           \* what the latest webhook() call returned, and for which id
    user_data,          \* index.py: context.user_data of the user (in memory)
    supabase,           \* index.py: a durable store is configured
    user_state,         \* durable table user_state: the user's row
    users,              \* durable table users: the user has a row
    turn,               \* what the latest handler of index.py did
    conv,               \* bot.py: the conversation's state
    bot_user_data,      \* bot.py: context.user_data of the user
    bot_turn,           \* what the latest handler of bot.py did
    requests,           \* index.py: the webhook() calls the container is running
    arrived,            \* the number of distinct update ids Telegram has sent
    in_flight           \* index.py: the handle_file run that awaits client.post

vars == <<processed_updates, initialized, accepted, response, user_data,
          supabase, user_state, users, turn, conv, bot_user_data, bot_turn,
          requests, arrived, in_flight>>

webhook_vars == <<processed_updates, initialized, accepted, response>>
session_vars == <<user_data, users, turn>>
durable_cfg  == <<supabase, user_state>>
bot_vars     == <<conv, bot_user_data, bot_turn>>
concurrent_vars == <<requests, arrived, in_flight>>

----------------------------------------------------------------------------
(* Values *)

Absent == "<absent>"      \* the key is not in the dict
None   == "<None>"        \* Python's None
NoRow  == "<no row>"      \* the select returned no row

Tasks     == {"analysis", "medication", "prescription", "radiography"}
Languages == {"Arabic", "Spanish", "English", "French"}

MAIN_MENU == <<"main", "menu">>

\* Payloads a client can send: the buttons of the keyboards, and payloads no
\* keyboard holds (a client may send arbitrary callback data).
CallbackData ==
    {MAIN_MENU}
      \cup {<<"task", t>> : t \in Tasks}
      \cup {<<"lang", l>> : l \in Languages}
      \cup {<<"task", "xray">>, <<"task", "">>, <<"lang", "German">>, <<"help">>}

\* data.startswith(prefix + "_")
StartsWith(data, prefix) == Len(data) >= 2 /\ data[1] = prefix

\* data.split("_")[1]
SplitAt1(data) == data[2]

\* Python truthiness of a str-or-None value
Truthy(v) == v \notin {None, ""}

\* dict.get(key) and dict.get(key, default) on a user_data field
Get(v) == IF v = Absent THEN None ELSE v
GetOr(v, default) == IF v = Absent THEN default ELSE v

EmptyUserData == [task |-> Absent, lang |-> Absent]

Range(seq) == {seq[i] : i \in 1..Len(seq)}

----------------------------------------------------------------------------
(* Outbound messages *)

Msg(text, keyboard) == [text |-> text, keyboard |-> keyboard]

\* str(response.status_code), as the f-string formats it
StatusText(status) ==
    CASE status = 200 -> "200"
      [] status = 429 -> "429"
      [] status = 500 -> "500"

get_main_menu == "main_menu"

WelcomeMsg          == Msg(<<"welcome">>, get_main_menu)
MainMenuMsg         == Msg(<<"main menu">>, get_main_menu)
LanguagePrompt(t)   == Msg(<<"choose language", t>>, "languages")
ReadyMsg(t, l)      == Msg(<<"ready", t, l>>, "change")
ProcessingMsg(t, l) == Msg(<<"processing", t, l>>, "none")
AnalysisMarkdown    == Msg(<<"analysis", "markdown">>, "none")
AnalysisPlain       == Msg(<<"analysis", "plain">>, "none")
VoiceMsg            == Msg(<<"voice">>, "none")
DoneMenuMsg         == Msg(<<"done">>, get_main_menu)
QuotaMsg            == Msg(<<"quota exceeded">>, "none")
ApiErrorMsg(status) == Msg(<<"api error", StatusText(status)>>, "none")
ExceptionMsg(what)  == Msg(<<"error", what>>, "none")

----------------------------------------------------------------------------
(* What a handler of index.py returns to the model: the user's user_data   *)
(* after it, whether the users table holds the user's row, the messages it *)
(* sent, the calls it made to the analysis service, and whether it raised. *)

Result(ud, row, msgs, calls, raised) ==
    [ud |-> ud, row |-> row, msgs |-> msgs, calls |-> calls, raised |-> raised]

(* start: /start and /menu *)
StartEnvs == [sendOK : BOOLEAN]

start(ud, row, env) ==
    IF env.sendOK
    THEN Result(ud, row, <<WelcomeMsg>>, <<>>, FALSE)
    ELSE Result(ud, row, <<>>, <<>>, TRUE)

(* button_callback: every inline-keyboard click.                           *)
(*   answerOK  query.answer() succeeds                                     *)
(*   dbOK      the durable store answers (FALSE: every call to it raises)  *)
(*   sendOK    query.edit_message_text() succeeds                          *)
CallbackEnvs ==
    {e \in [answerOK : BOOLEAN, dbOK : BOOLEAN, sendOK : BOOLEAN] :
        ~e.answerOK => (e.dbOK /\ e.sendOK)}

\* Step 1 -> Step 2 (lines 87-124): the task_ branch
TaskSelected(ud, row, data, env, sb) ==
    LET task == SplitAt1(data)
        row2 == IF sb /\ env.dbOK THEN TRUE ELSE row   \* users upsert, in try/except
        ud2  == [ud EXCEPT !.task = task]
    IN  IF env.sendOK
        THEN Result(ud2, row2, <<LanguagePrompt(task)>>, <<>>, FALSE)
        ELSE Result(ud2, row2, <<>>, <<>>, TRUE)

\* Mutant of LanguageSelected: the durable row is read first, user_data only
\* when the store holds no task.
LanguageSelectedDurableFirst(ud, row, data, env, sb, ustate) ==
    LET lang   == SplitAt1(data)
        ud2    == [ud EXCEPT !.lang = lang]
        stored == IF sb /\ ustate # NoRow THEN ustate ELSE None
        found  == IF Truthy(stored) THEN stored ELSE Get(ud2.task)
        task   == IF Truthy(found) THEN found ELSE "analysis"
    IN  IF sb /\ ~env.dbOK
        THEN Result(ud2, row, <<>>, <<>>, TRUE)
        ELSE IF env.sendOK
        THEN Result(ud2, row, <<ReadyMsg(task, lang)>>, <<>>, FALSE)
        ELSE Result(ud2, row, <<>>, <<>>, TRUE)

\* Step 2 -> Step 3 (lines 127-171): the lang_ branch
LanguageSelected(ud, row, data, env, sb, ustate) ==
    LET lang   == SplitAt1(data)
        ud2    == [ud EXCEPT !.lang = lang]
        mem    == Get(ud2.task)
        lookup == ~Truthy(mem) /\ sb                   \* "if not task and supabase"
        found  == IF lookup /\ ustate # NoRow THEN ustate ELSE mem
        task   == IF Truthy(found) THEN found ELSE "analysis"
    IN  IF lookup /\ ~env.dbOK
        THEN Result(ud2, row, <<>>, <<>>, TRUE)         \* the select is in no try
        ELSE IF env.sendOK
        THEN Result(ud2, row, <<ReadyMsg(task, lang)>>, <<>>, FALSE)
        ELSE Result(ud2, row, <<>>, <<>>, TRUE)

button_callback(ud, row, data, env, sb, ustate) ==
    IF ~env.answerOK THEN Result(ud, row, <<>>, <<>>, TRUE)
    ELSE IF data = MAIN_MENU
    THEN IF env.sendOK
         THEN Result(ud, row, <<MainMenuMsg>>, <<>>, FALSE)
         ELSE Result(ud, row, <<>>, <<>>, TRUE)
    ELSE IF StartsWith(data, "task") THEN TaskSelected(ud, row, data, env, sb)
    ELSE IF StartsWith(data, "lang")
    THEN LanguageSelected(ud, row, data, env, sb, ustate)
    ELSE Result(ud, row, <<>>, <<>>, FALSE)

----------------------------------------------------------------------------
(* handle_file: a photo or document message.                               *)

\* update.message of the three shapes the handler tells apart: photo is the
\* list of the photo's sizes (file ids), document a file id or None.
FileMessages ==
    { [photo |-> <<"photo-small", "photo-large">>, document |-> None],
      [photo |-> <<>>, document |-> "document-1"],
      [photo |-> <<>>, document |-> None] }

\* get_file(file_id) and download_to_memory: the bytes Telegram holds
FileBytes(file_id) == <<"bytes of", file_id>>

\* Mutant of Endpoint: the two-way choice of bot.py's handle_document.
EndpointTwoWay(task) ==
    IF task = "analysis" THEN <<"/lab/read-", "analysis">>
    ELSE <<"/lab/read-", "medication">>

\* f"/lab/read-{task}"
Endpoint(task) == <<"/lab/read-", task>>

\* What the calls of one handle_file run do:
\*   statusOK    reply_text("Processing ...") succeeds
\*   downloadOK  get_file and download_to_memory succeed
\*   postOK      client.post returns a response (FALSE: timeout, no connection)
\*   status      the response's status code
\*   jsonOK      the 200 response's body parses as JSON
\*   length      the length of the analysis text of the 200 response
\*   mdOK        edit_text(clean_text, parse_mode="Markdown") succeeds
\*   plainOK     the fallback edit_text(analysis_text) succeeds
\*   voice       the response's voice: "none", or sending it is "ok" or "fails"
\*   menuOK      the closing reply_text with the main menu succeeds
AllOK ==
    [statusOK |-> TRUE, downloadOK |-> TRUE, postOK |-> TRUE, status |-> 200,
     jsonOK |-> TRUE, length |-> 100, mdOK |-> TRUE, plainOK |-> TRUE,
     voice |-> "none", menuOK |-> TRUE]

\* One env per path through the handler (a call that is not reached is left
\* at its value in AllOK).
FileEnvs ==
    {[AllOK EXCEPT !.statusOK = FALSE], [AllOK EXCEPT !.downloadOK = FALSE],
     [AllOK EXCEPT !.postOK = FALSE], [AllOK EXCEPT !.jsonOK = FALSE],
     [AllOK EXCEPT !.mdOK = FALSE, !.plainOK = FALSE]}
      \cup {[AllOK EXCEPT !.status = s] : s \in {429, 500}}
      \cup {[AllOK EXCEPT !.length = n] : n \in {4000, 4001, 8001}}
      \cup {[AllOK EXCEPT !.mdOK = m, !.voice = v, !.menuOK = k] :
                m \in BOOLEAN, v \in {"none", "ok", "fails"}, k \in BOOLEAN}

RelayCall(task, lang, bytes, env) ==
    [endpoint |-> Endpoint(task), language |-> lang, file |-> bytes,
     answered |-> env.postOK, status |-> env.status, length |-> env.length]

\* Lines 205-255: the response's status is 200. sent: the messages so far.
\* The analysis text goes out whole, whatever its length, in one edit of the
\* status message: AnalysisMarkdown (line 217) or AnalysisPlain (line 219).
\* The tracking of lines 235-248 updates llm_interactions and the timestamp
\* of the user's row inside a try/except; the model keeps neither column.
RelaySucceeded(ud, row, env, sent, calls) ==
    IF ~env.jsonOK
    THEN Result(ud, row, sent \o <<ExceptionMsg("json")>>, calls, FALSE)
    ELSE
    LET cleared == EmptyUserData                       \* context.user_data.clear()
        text  == IF env.mdOK THEN <<AnalysisMarkdown>> ELSE <<AnalysisPlain>>
        voice == IF env.voice = "ok" THEN <<VoiceMsg>> ELSE <<>>
    IN  IF ~env.mdOK /\ ~env.plainOK
        THEN Result(cleared, row, sent \o <<ExceptionMsg("edit_text")>>, calls, FALSE)
        ELSE IF ~env.menuOK
        THEN Result(cleared, row,
                    sent \o text \o voice \o <<ExceptionMsg("reply_text")>>,
                    calls, FALSE)
        ELSE Result(cleared, row, sent \o text \o voice \o <<DoneMenuMsg>>,
                    calls, FALSE)

\* Mutant of handle_file: the status message is sent before the payload is
\* looked at.
handle_fileStatusFirst(ud, row, message, env) ==
    LET task == GetOr(ud.task, "analysis")
        lang == GetOr(ud.lang, "English")
        file_id == IF message.photo # <<>>
                   THEN message.photo[Len(message.photo)]
                   ELSE message.document
        status_msg == <<ProcessingMsg(task, lang)>>
        calls == <<RelayCall(task, lang, FileBytes(file_id), env)>>
    IN  IF ~env.statusOK THEN Result(ud, row, <<>>, <<>>, TRUE)
        ELSE IF message.photo = <<>> /\ message.document = None
        THEN Result(ud, row, status_msg, <<>>, FALSE)
        ELSE IF ~env.downloadOK
        THEN Result(ud, row, status_msg \o <<ExceptionMsg("download")>>, <<>>, FALSE)
        ELSE IF ~env.postOK
        THEN Result(ud, row, status_msg \o <<ExceptionMsg("network")>>, calls, FALSE)
        ELSE IF env.status = 200
        THEN RelaySucceeded(ud, row, env, status_msg, calls)
        ELSE IF env.status = 429
        THEN Result(ud, row, status_msg \o <<QuotaMsg>>, calls, FALSE)
        ELSE Result(ud, row, status_msg \o <<ApiErrorMsg(env.status)>>, calls, FALSE)

handle_file(ud, row, message, env) ==
    LET task == GetOr(ud.task, "analysis")
        lang == GetOr(ud.lang, "English")
        file_id == IF message.photo # <<>>
                   THEN message.photo[Len(message.photo)]
                   ELSE message.document
        status_msg == <<ProcessingMsg(task, lang)>>
        calls == <<RelayCall(task, lang, FileBytes(file_id), env)>>
    IN  IF message.photo = <<>> /\ message.document = None
        THEN Result(ud, row, <<>>, <<>>, FALSE)
        ELSE IF ~env.statusOK THEN Result(ud, row, <<>>, <<>>, TRUE)
        ELSE IF ~env.downloadOK
        THEN Result(ud, row, status_msg \o <<ExceptionMsg("download")>>, <<>>, FALSE)
        ELSE IF ~env.postOK
        THEN Result(ud, row, status_msg \o <<ExceptionMsg("network")>>, calls, FALSE)
        ELSE IF env.status = 200
        THEN RelaySucceeded(ud, row, env, status_msg, calls)
        ELSE IF env.status = 429
        THEN Result(ud, row, status_msg \o <<QuotaMsg>>, calls, FALSE)
        ELSE Result(ud, row, status_msg \o <<ApiErrorMsg(env.status)>>, calls, FALSE)

----------------------------------------------------------------------------
(* bot.py: the polling deployment. Its conversation handler keeps one      *)
(* state per user (END: no conversation is open) and runs the handler      *)
(* registered for that state; the handler's return value is the next       *)
(* state, and a handler that raises leaves the state as it was.            *)
(* bot.py imports the conversation handler under the name                  *)
(* ConversationFactory; it is used, and modelled, as telegram.ext's        *)
(* conversation handler (entry_points, states, fallbacks, END).            *)

CHOOSING_TYPE     == 0
CHOOSING_LANGUAGE == 1
UPLOADING         == 2
END               == -1

\* What the user can type: the labels of the reply keyboards, and other text.
BotTexts ==
    {"Analysis", "Medication", "English", "French", "Arabic", "Spanish", "Radiography"}

\* str.lower()
Lower(text) ==
    CASE text = "Analysis"    -> "analysis"
      [] text = "Medication"  -> "medication"
      [] text = "Radiography" -> "radiography"
      [] text = "English"     -> "english"
      [] text = "French"      -> "french"
      [] text = "Arabic"      -> "arabic"
      [] text = "Spanish"     -> "spanish"

BotResult(ud, msgs, calls, raised, next) ==
    [ud |-> ud, msgs |-> msgs, calls |-> calls, raised |-> raised, next |-> next]

BotWelcome         == Msg(<<"welcome">>, "types")
BotLanguagePrompt(t) == Msg(<<"choose language", t>>, "languages")
BotUploadPrompt(l) == Msg(<<"upload", l>>, "remove")
BotProcessing      == Msg(<<"processing">>, "none")
BotApiError        == Msg(<<"api error">>, "none")
BotFailed          == Msg(<<"failed to connect">>, "none")
BotCancelled       == Msg(<<"cancelled">>, "remove")

\* bot.py start, type_choice, language_choice, cancel; ok: reply_text succeeds
bot_start(ud, state, ok) ==
    IF ok THEN BotResult(ud, <<BotWelcome>>, <<>>, FALSE, CHOOSING_TYPE)
    ELSE BotResult(ud, <<>>, <<>>, TRUE, state)

type_choice(ud, state, text, ok) ==
    LET ud2 == [ud EXCEPT !.type = Lower(text)]
    IN  IF ok THEN BotResult(ud2, <<BotLanguagePrompt(text)>>, <<>>, FALSE, CHOOSING_LANGUAGE)
        ELSE BotResult(ud2, <<>>, <<>>, TRUE, state)

language_choice(ud, state, text, ok) ==
    LET ud2 == [ud EXCEPT !.language = text]
    IN  IF ok THEN BotResult(ud2, <<BotUploadPrompt(text)>>, <<>>, FALSE, UPLOADING)
        ELSE BotResult(ud2, <<>>, <<>>, TRUE, state)

cancel(ud, state, ok) ==
    IF ok THEN BotResult(ud, <<BotCancelled>>, <<>>, FALSE, END)
    ELSE BotResult(ud, <<>>, <<>>, TRUE, state)

\* The analysis text is held as its length; a message carrying the
\* characters [from, to) of it is Slice(from, to).
Slice(from, to) == Msg(<<"analysis">>, <<from, to>>)

ChunkSize == 4000

Min(a, b) == IF a < b THEN a ELSE b

\* for i in range(0, len(analysis_text), 4000): reply_text(analysis_text[i:i+4000])
RECURSIVE Chunks(_, _)
Chunks(i, n) ==
    IF i >= n THEN <<>>
    ELSE <<Slice(i, Min(i + ChunkSize, n))>> \o Chunks(i + ChunkSize, n)

\* lines 100-109: the messages that carry an analysis text of n characters
AnalysisMessages(n) ==
    IF n > ChunkSize THEN Chunks(0, n) ELSE <<Slice(0, n)>>

\* What the calls of one handle_document run do:
\*   getOK       get_file() succeeds
\*   statusOK    reply_text("Processing ...") succeeds
\*   downloadOK  download_as_bytearray() succeeds
\*   postOK      client.post returns a response
\*   status      the response's status code
\*   jsonOK      the response's body parses as JSON
\*   length      the length of the analysis text of a 200 response
\*   sendOK      the reply_text calls that follow the response succeed
BotAllOK ==
    [getOK |-> TRUE, statusOK |-> TRUE, downloadOK |-> TRUE, postOK |-> TRUE,
     status |-> 200, jsonOK |-> TRUE, length |-> 100, sendOK |-> TRUE]

BotFileEnvs ==
    {[BotAllOK EXCEPT !.getOK = FALSE], [BotAllOK EXCEPT !.statusOK = FALSE],
     [BotAllOK EXCEPT !.downloadOK = FALSE], [BotAllOK EXCEPT !.postOK = FALSE]}
      \cup {[BotAllOK EXCEPT !.status = s, !.jsonOK = j] :
                s \in {200, 429, 500}, j \in BOOLEAN}
      \cup {[BotAllOK EXCEPT !.status = s, !.sendOK = FALSE] : s \in {200, 429, 500}}
      \cup {[BotAllOK EXCEPT !.length = n] : n \in {0, 4000, 4001, 8000, 8001}}

handle_document(ud, state, message, env) ==
    LET file_id   == IF message.photo # <<>>
                     THEN message.photo[Len(message.photo)]
                     ELSE message.document
        task_type == Get(ud.type)
        language  == Get(ud.language)
        endpoint  == IF task_type = "analysis"
                     THEN <<"/lab/read-", "analysis">>
                     ELSE <<"/lab/read-", "medication">>
        calls     == <<[endpoint |-> endpoint, language |-> language,
                        file |-> FileBytes(file_id),
                        answered |-> env.postOK, status |-> env.status,
                        length |-> env.length]>>
        failed    == BotResult(ud, <<BotProcessing, BotFailed>>, calls, FALSE, END)
    IN  IF message.photo = <<>> /\ message.document = None
        THEN BotResult(ud, <<>>, <<>>, TRUE, state)     \* None.get_file()
        ELSE IF ~env.getOK \/ ~env.statusOK
        THEN BotResult(ud, <<>>, <<>>, TRUE, state)
        ELSE IF ~env.downloadOK
        THEN BotResult(ud, <<BotProcessing>>, <<>>, TRUE, state)
        ELSE IF ~env.postOK \/ ~env.jsonOK \/ ~env.sendOK THEN failed
        ELSE IF env.status = 200
        THEN BotResult(ud, <<BotProcessing>> \o AnalysisMessages(env.length),
                       calls, FALSE, END)
        ELSE BotResult(ud, <<BotProcessing, BotApiError>>, calls, FALSE, END)

----------------------------------------------------------------------------
(* The handlers of index.py as steps of the system: what                   *)
(* tg_app.process_update runs for a command, a click and a file message.   *)

NoMessage == [photo |-> <<>>, document |-> None]

NoResponse == [update_id |-> 0, status |-> "none", dispatched |-> FALSE]

\* The webhook() calls that run at the same time in one container: each is a
\* coroutine of the event loop, and they interleave at their awaits.
MaxConcurrent == 2

Coroutines == 1..MaxConcurrent

\* A coroutine's position: "idle" (no call), or the await at which the call
\* is suspended: "json" (request.json(), line 281), "initialize"
\* (tg_app.initialize(), line 292), "process_update" (line 295).
\* update_id 0: the body of the request does not parse.
Idle == [pc |-> "idle", update_id |-> 0]

\* No handle_file run is suspended. Otherwise: the user_data the run read
\* its task and lang from (lines 178-179) and its message.
NoFlight == [active |-> FALSE, ud |-> EmptyUserData, message |-> NoMessage]

Turn(handler, data, message, r) ==
    [handler |-> handler, data |-> data, message |-> message,
     msgs |-> r.msgs, calls |-> r.calls, raised |-> r.raised]

NoTurn(what) ==
    [handler |-> what, data |-> <<>>, message |-> NoMessage,
     msgs |-> <<>>, calls |-> <<>>, raised |-> FALSE]

Handled(handler, data, message, r) ==
    /\ user_data' = r.ud
    /\ users' = r.row
    /\ turn' = Turn(handler, data, message, r)

\* CommandHandler("start", start) and CommandHandler("menu", start)
StartCommand ==
    /\ \E env \in StartEnvs :
          Handled("start", <<>>, NoMessage, start(user_data, users, env))
    /\ UNCHANGED <<webhook_vars, durable_cfg, bot_vars, concurrent_vars>>

\* CallbackQueryHandler(button_callback)
ButtonClick ==
    /\ \E data \in CallbackData, env \in CallbackEnvs :
          /\ ~supabase => env.dbOK
          /\ Handled("button_callback", data, NoMessage,
                     button_callback(user_data, users, data, env, supabase, user_state))
    /\ UNCHANGED <<webhook_vars, durable_cfg, bot_vars, concurrent_vars>>

\* MessageHandler(filters.PHOTO | filters.Document.ALL, handle_file)
FileReceived ==
    /\ \E message \in FileMessages, env \in FileEnvs :
          Handled("handle_file", <<>>, message,
                  handle_file(user_data, users, message, env))
    /\ UNCHANGED <<webhook_vars, durable_cfg, bot_vars, concurrent_vars>>

\* The container is replaced: the module's globals and the application's
\* in-memory user_data start again, the durable tables stay.
ColdStart ==
    /\ processed_updates' = {}
    /\ initialized' = FALSE
    /\ user_data' = EmptyUserData
    /\ turn' = NoTurn("cold start")
    /\ accepted' = <<>>
    /\ response' = NoResponse
    /\ requests' = [c \in Coroutines |-> Idle]
    /\ in_flight' = NoFlight
    /\ UNCHANGED <<users, durable_cfg, bot_vars, arrived>>

InitWebhook ==
    /\ processed_updates = {}
    /\ initialized = FALSE
    /\ accepted = <<>>
    /\ response = NoResponse

InitSession ==
    /\ user_data = EmptyUserData
    /\ users = FALSE
    /\ turn = NoTurn("none")
    /\ \/ supabase = FALSE /\ user_state = NoRow
       \/ supabase = TRUE /\ user_state \in {NoRow, None} \cup Tasks

InitBot ==
    /\ conv = END
    /\ bot_user_data = [type |-> Absent, language |-> Absent]
    /\ bot_turn = NoTurn("none")

RequestsIdle ==
    /\ requests = [c \in Coroutines |-> Idle]
    /\ in_flight = NoFlight

InitConcurrent == RequestsIdle /\ arrived = 0

Init == InitWebhook /\ InitSession /\ InitBot /\ InitConcurrent

Next == StartCommand \/ ButtonClick \/ FileReceived \/ ColdStart

Spec == Init /\ [][Next]_vars

----------------------------------------------------------------------------
(* webhook: the entry point of index.py. An update is named by its         *)
(* update_id; ids are numbered in the order in which the container first   *)
(* sees them. Telegram delivers a new update or delivers the latest one    *)
(* again.                                                                  *)

Capacity == 100

MaxUpdateId == 101

Seen == Range(accepted)

DeliverableIds ==
    {u \in {Cardinality(Seen) + 1} : u <= MaxUpdateId}
      \cup {u \in {response.update_id} : u # 0}

\* processed_updates.add(id); if len(processed_updates) > 100:
\* processed_updates.pop(). set.pop() removes an arbitrary element: the sets
\* that can be left.
AddAndEvict(set, id) ==
    LET added == set \cup {id}
    IN  IF Cardinality(added) > Capacity
        THEN {added \ {x} : x \in added}
        ELSE {added}

\* The history of accepted ids, latest last, each id once.
Accept(history, id) ==
    Append(SelectSeq(history, LAMBDA x : x # id), id)

\* request.json() or Update.de_json raises: the except branch answers.
WebhookParseError ==
    /\ response' = [update_id |-> 0, status |-> "error", dispatched |-> FALSE]
    /\ UNCHANGED <<processed_updates, initialized, accepted, session_vars>>

\* Lines 284-299 for update id with the handler's run r; initOK:
\* tg_app.initialize() succeeds. process_update passes what a handler raises
\* to the application's error handlers, so the webhook still answers "ok".
Deliver(id, initOK, handler, data, message, r) ==
    IF id \in processed_updates
    THEN /\ response' = [update_id |-> id, status |-> "already processed",
                          dispatched |-> FALSE]
         /\ UNCHANGED <<processed_updates, initialized, accepted, session_vars>>
    ELSE /\ processed_updates' \in AddAndEvict(processed_updates, id)
         /\ accepted' = Accept(accepted, id)
         /\ IF ~initialized /\ ~initOK
            THEN /\ response' = [update_id |-> id, status |-> "error",
                                  dispatched |-> FALSE]
                 /\ UNCHANGED <<initialized, session_vars>>
            ELSE /\ initialized' = TRUE
                 /\ Handled(handler, data, message, r)
                 /\ response' = [update_id |-> id, status |-> "ok",
                                  dispatched |-> TRUE]

\* The updates this specification delivers: one of each kind of the dialog.
WebhookCallbackData == {MAIN_MENU, <<"task", "medication">>, <<"lang", "French">>}
WebhookFileEnvs     == {AllOK, [AllOK EXCEPT !.status = 429]}
WebhookFileMessage  == [photo |-> <<>>, document |-> "document-1"]
CallbackAllOK       == [answerOK |-> TRUE, dbOK |-> TRUE, sendOK |-> TRUE]

Webhook ==
    /\ \/ WebhookParseError
       \/ \E id \in DeliverableIds, initOK \in BOOLEAN :
            /\ initialized => initOK
            /\ \/ Deliver(id, initOK, "start", <<>>, NoMessage,
                           start(user_data, users, [sendOK |-> TRUE]))
               \/ \E data \in WebhookCallbackData :
                    Deliver(id, initOK, "button_callback", data, NoMessage,
                            button_callback(user_data, users, data, CallbackAllOK,
                                            supabase, user_state))
               \/ \E env \in WebhookFileEnvs :
                    Deliver(id, initOK, "handle_file", <<>>, WebhookFileMessage,
                            handle_file(user_data, users, WebhookFileMessage, env))
               \/ Deliver(id, initOK, "none", <<>>, NoMessage,
                          Result(user_data, users, <<>>, <<>>, FALSE))
    /\ UNCHANGED <<durable_cfg, bot_vars, concurrent_vars>>

NextWebhook == Webhook \/ ColdStart

InitWebhookSpec == Init /\ supabase = FALSE

SpecWebhook == InitWebhookSpec /\ [][NextWebhook]_vars

----------------------------------------------------------------------------
(* The handlers of bot.py as steps of the system *)

BotHandled(handler, message, r) ==
    /\ bot_user_data' = r.ud
    /\ conv' = r.next
    /\ bot_turn' = [handler |-> handler, data |-> <<>>, message |-> message,
                    msgs |-> r.msgs, calls |-> r.calls, raised |-> r.raised]

\* entry_points: /start opens a conversation when none is open
BotStart ==
    /\ conv = END
    /\ \E ok \in BOOLEAN :
          BotHandled("start", NoMessage, bot_start(bot_user_data, conv, ok))
    /\ UNCHANGED <<webhook_vars, session_vars, durable_cfg, concurrent_vars>>

BotTypeChoice ==
    /\ conv = CHOOSING_TYPE
    /\ \E text \in BotTexts, ok \in BOOLEAN :
          BotHandled("type_choice", NoMessage,
                     type_choice(bot_user_data, conv, text, ok))
    /\ UNCHANGED <<webhook_vars, session_vars, durable_cfg, concurrent_vars>>

BotLanguageChoice ==
    /\ conv = CHOOSING_LANGUAGE
    /\ \E text \in BotTexts, ok \in BOOLEAN :
          BotHandled("language_choice", NoMessage,
                     language_choice(bot_user_data, conv, text, ok))
    /\ UNCHANGED <<webhook_vars, session_vars, durable_cfg, concurrent_vars>>

BotDocument ==
    /\ conv = UPLOADING
    /\ \E message \in FileMessages, env \in BotFileEnvs :
          BotHandled("handle_document", message,
                     handle_document(bot_user_data, conv, message, env))
    /\ UNCHANGED <<webhook_vars, session_vars, durable_cfg, concurrent_vars>>

\* fallbacks: /cancel in any open conversation
BotCancel ==
    /\ conv # END
    /\ \E ok \in BOOLEAN :
          BotHandled("cancel", NoMessage, cancel(bot_user_data, conv, ok))
    /\ UNCHANGED <<webhook_vars, session_vars, durable_cfg, concurrent_vars>>

\* A photo or document while the conversation is not in UPLOADING: no
\* handler is registered for it, nothing runs.
BotDocumentIgnored ==
    /\ conv # UPLOADING
    /\ \E message \in FileMessages :
          bot_turn' = [NoTurn("ignored") EXCEPT !.message = message]
    /\ UNCHANGED <<conv, bot_user_data, webhook_vars, session_vars, durable_cfg,
                   concurrent_vars>>

NextBot ==
    BotStart \/ BotTypeChoice \/ BotLanguageChoice \/ BotDocument \/ BotCancel
      \/ BotDocumentIgnored

InitBotSpec == Init /\ supabase = FALSE

SpecBot == InitBotSpec /\ [][NextBot]_vars

----------------------------------------------------------------------------
(* webhook as the coroutines of one container. A call runs without         *)
(* interruption from one await to the next; at an await any other call may *)
(* run. Between the membership test of line 284 and the add of line 287    *)
(* there is no await; between the test of line 291 and the assignment of   *)
(* line 293 there is one.                                                  *)

\* The number of new updates that arrive in one run.
MaxArrivals == 2

\* The ids a new request can carry: 0 (a body that does not parse), the next
\* id Telegram has not sent yet, or the id of a call that is still running
\* (Telegram sends an update again while it has no answer).
ArrivingIds(c) ==
    {0} \cup {u \in {arrived + 1} :
                 u <= MaxArrivals \/ (u >= Capacity /\ u < Capacity + MaxArrivals)}
        \cup {requests[d].update_id : d \in Coroutines \ {c}}

Returns(c, status, dispatched) ==
    /\ requests' = [requests EXCEPT ![c] = Idle]
    /\ response' = [update_id |-> requests[c].update_id, status |-> status,
                    dispatched |-> dispatched]

\* The request reaches webhook(), which awaits request.json() (line 281).
Arrive(c) ==
    /\ requests[c].pc = "idle"
    /\ \E id \in ArrivingIds(c) :
          /\ requests' = [requests EXCEPT ![c] = [pc |-> "json", update_id |-> id]]
          /\ arrived' = IF id > arrived THEN id ELSE arrived
    /\ UNCHANGED <<webhook_vars, session_vars, durable_cfg, bot_vars, in_flight>>

\* Lines 281-292, from the body to the next await or return.
Parsed(c) ==
    LET id == requests[c].update_id
    IN  /\ requests[c].pc = "json"
        /\ IF id = 0
           THEN /\ Returns(c, "error", FALSE)
                /\ UNCHANGED <<processed_updates, accepted>>
           ELSE IF id \in processed_updates
           THEN /\ Returns(c, "already processed", FALSE)
                /\ UNCHANGED <<processed_updates, accepted>>
           ELSE /\ processed_updates' \in AddAndEvict(processed_updates, id)
                /\ accepted' = Accept(accepted, id)
                /\ requests' =
                      [requests EXCEPT ![c].pc =
                          IF initialized THEN "process_update" ELSE "initialize"]
                /\ UNCHANGED response
        /\ UNCHANGED <<initialized, session_vars, durable_cfg, bot_vars,
                       arrived, in_flight>>

\* tg_app.initialize() ends: line 293, or the except branch.
Initialized(c) ==
    /\ requests[c].pc = "initialize"
    /\ \E initOK \in BOOLEAN :
          IF initOK
          THEN /\ initialized' = TRUE
               /\ requests' = [requests EXCEPT ![c].pc = "process_update"]
               /\ UNCHANGED response
          ELSE /\ Returns(c, "error", FALSE)
               /\ UNCHANGED initialized
    /\ UNCHANGED <<processed_updates, accepted, session_vars, durable_cfg,
                   bot_vars, arrived, in_flight>>

\* tg_app.process_update(update) runs the update's handler; line 296.
Dispatched(c) ==
    /\ requests[c].pc = "process_update"
    /\ \/ Handled("start", <<>>, NoMessage,
                  start(user_data, users, [sendOK |-> TRUE]))
       \/ Handled("button_callback", <<"task", "medication">>, NoMessage,
                  button_callback(user_data, users, <<"task", "medication">>,
                                  CallbackAllOK, supabase, user_state))
    /\ Returns(c, "ok", TRUE)
    /\ UNCHANGED <<processed_updates, initialized, accepted, durable_cfg,
                   bot_vars, arrived, in_flight>>

NextConcurrent ==
    \E c \in Coroutines : Arrive(c) \/ Parsed(c) \/ Initialized(c) \/ Dispatched(c)

\* The container is fresh, or it has answered Capacity - 1 updates one after
\* the other (a state SpecWebhook reaches) and no call is running.
InitConcurrentSpec ==
    /\ InitSession /\ InitBot /\ RequestsIdle
    /\ supabase = FALSE
    /\ response = NoResponse
    /\ \E k \in {0, Capacity - 1} :
          /\ processed_updates = 1..k
          /\ accepted = [i \in 1..k |-> i]
          /\ initialized = (k > 0)
          /\ arrived = k

SpecConcurrent == InitConcurrentSpec /\ [][NextConcurrent]_vars

----------------------------------------------------------------------------
(* handle_file across its await of client.post (line 203). The run reads   *)
(* task and lang into locals at lines 178-179 and is suspended while the   *)
(* analysis service works; other updates of the same user are handled      *)
(* meanwhile, on the same context.user_data. When the response is there    *)
(* the run goes on with its locals, and context.user_data.clear() (line    *)
(* 208) acts on user_data as it is then.                                   *)

\* Lines 177-203: the run sends its status message, downloads the file and
\* posts it.
FileSuspended ==
    /\ ~in_flight.active
    /\ \E message \in {m \in FileMessages : m.photo # <<>> \/ m.document # None} :
          /\ in_flight' = [active |-> TRUE, ud |-> user_data, message |-> message]
          /\ turn' = Turn("handle_file", <<>>, message,
                          Result(user_data, users,
                                 <<ProcessingMsg(GetOr(user_data.task, "analysis"),
                                                 GetOr(user_data.lang, "English"))>>,
                                 <<>>, FALSE))
    /\ UNCHANGED <<user_data, users, webhook_vars, durable_cfg, bot_vars,
                   requests, arrived>>

\* Lines 203-267: the post has ended (env: how, and what the later calls
\* do). The messages and the call are those of the run's locals; user_data
\* is cleared, or left, as handle_file does on this path.
FileResumed ==
    /\ in_flight.active
    /\ \E env \in {e \in FileEnvs : e.statusOK /\ e.downloadOK} :
          LET r    == handle_file(in_flight.ud, users, in_flight.message, env)
              live == handle_file(user_data, users, in_flight.message, env)
          IN  /\ user_data' = live.ud
              /\ users' = r.row
              /\ turn' = Turn("handle_file", <<>>, in_flight.message, r)
    /\ in_flight' = NoFlight
    /\ UNCHANGED <<webhook_vars, durable_cfg, bot_vars, requests, arrived>>

\* Another update of the same user is handled: /start, or a click.
OtherUpdate ==
    /\ \/ Handled("start", <<>>, NoMessage,
                  start(user_data, users, [sendOK |-> TRUE]))
       \/ \E data \in WebhookCallbackData :
             Handled("button_callback", data, NoMessage,
                     button_callback(user_data, users, data, CallbackAllOK,
                                     supabase, user_state))
    /\ UNCHANGED <<webhook_vars, durable_cfg, bot_vars, concurrent_vars>>

NextInFlight == FileSuspended \/ FileResumed \/ OtherUpdate

InitInFlightSpec == Init /\ supabase = FALSE

SpecInFlight == InitInFlightSpec /\ [][NextInFlight]_vars

----------------------------------------------------------------------------
(* Reading the latest turn *)

IsClick(t)      == t.handler = "button_callback"
IsTaskClick(t)  == IsClick(t) /\ Len(t.data) >= 2 /\ t.data[1] = "task"
IsLangClick(t)  == IsClick(t) /\ Len(t.data) >= 2 /\ t.data[1] = "lang"
IsMenuClick(t)  == IsClick(t) /\ t.data = <<"main", "menu">>
IsFile(t)       == t.handler = "handle_file"
HasPayload(t)   == t.message.photo # <<>> \/ t.message.document # None
\* the handler ran to its end
Completed(t)    == ~t.raised
\* handle_file got the document's bytes from Telegram
GotBytes(t) ==
    /\ IsFile(t) /\ HasPayload(t) /\ Completed(t)
    /\ t.msgs # <<>>
    /\ [text |-> <<"error", "download">>, keyboard |-> "none"] \notin Range(t.msgs)
\* the analysis service answered the turn's call with this status
Answered(t, status) ==
    /\ Len(t.calls) = 1
    /\ t.calls[1].answered /\ t.calls[1].status = status
\* the turn's call to the analysis service failed
RelayFailed(t) ==
    /\ Len(t.calls) = 1
    /\ (~t.calls[1].answered \/ t.calls[1].status # 200)
\* the file id the turn's message names
SentFile(t) ==
    IF t.message.photo # <<>> THEN "photo-large" ELSE t.message.document

----------------------------------------------------------------------------
(* C1. When the update that was just dispatched is delivered again         *)
(* directly afterwards, the webhook answers "already processed" and        *)
(* nothing else happens: no session change, no message, no relay call.     *)
C1_DuplicateIsNoOp ==
    [][(response.dispatched /\ response'.update_id = response.update_id)
          => /\ response'.status = "already processed"
             /\ UNCHANGED <<user_data, users, turn>>]_vars

\* The 100 most recently accepted distinct ids.
C2_Recent ==
    {accepted[i] : i \in {j \in 1..Len(accepted) : j > Len(accepted) - 100}}

(* C2. Every id among the 100 most recently accepted distinct ids is in    *)
(* the processed set.                                                      *)
C2_SlidingWindow == C2_Recent \subseteq processed_updates

\* The step accepts a new id while the set holds 100.
C3_Accepting ==
    /\ Cardinality(processed_updates) = 100
    /\ accepted' # accepted
    /\ response'.update_id \notin processed_updates

(* C3. The processed set never holds more than 100 ids, and accepting a    *)
(* new id while it holds 100 removes exactly one id that was in it before  *)
(* and keeps the new one.                                                  *)
C3_EvictsOneOlderRecord ==
    /\ [](Cardinality(processed_updates) <= 100)
    /\ [][C3_Accepting =>
            \E x \in processed_updates :
               processed_updates' =
                  (processed_updates \ {x}) \cup {response'.update_id}]_vars

----------------------------------------------------------------------------
\* One step of the dialog: a task selection, a language selection, a document.
C4_Step ==
    /\ (IsTaskClick(turn') /\ Completed(turn') /\ turn'.data[2] \in Tasks)
          => (user_data'.task = turn'.data[2] /\ user_data'.lang = user_data.lang)
    /\ (IsLangClick(turn') /\ Completed(turn') /\ turn'.data[2] \in Languages)
          => (user_data'.lang = turn'.data[2] /\ user_data'.task = user_data.task)
    /\ (GotBytes(turn') /\ user_data.task \in Tasks /\ user_data.lang \in Languages)
          => /\ Len(turn'.calls) = 1
             /\ turn'.calls[1].endpoint = <<"/lab/read-", user_data.task>>
             /\ turn'.calls[1].language = user_data.lang
             /\ turn'.calls[1].file = <<"bytes of", SentFile(turn')>>

(* C4. For every task t and language l: a task selection for t stores      *)
(* task = t; a following language selection for l stores lang = l and      *)
(* keeps task = t; a following document whose bytes Telegram delivers      *)
(* calls the analysis service exactly once, on route read-t, with language *)
(* l and the document's bytes.                                             *)
C4_SelectionsReachRelay == [][C4_Step]_vars

\* Medication, then French, then a photo: relayed on read-medication in French.
C4_Witness ==
    /\ GotBytes(turn) /\ Len(turn.calls) = 1
    /\ turn.calls[1].endpoint = <<"/lab/read-", "medication">>
    /\ turn.calls[1].language = "French"
    /\ turn.calls[1].file = <<"bytes of", "photo-large">>

\* The call handle_file makes for a document, given the user_data it finds.
C5_NextRelay(ud) ==
    handle_file(ud, TRUE, [photo |-> <<>>, document |-> "document-1"], AllOK).calls

(* C5. With a durable store configured, emptying the container's memory    *)
(* between two turns does not change the task and language the next        *)
(* document is relayed with.                                               *)
C5_ColdStartKeepsSession ==
    [][(turn'.handler = "cold start" /\ supabase)
          => C5_NextRelay(user_data') = C5_NextRelay(user_data)]_vars

\* handle_file reported this failure to the user (the outer except branch).
Reported(t, what) ==
    [text |-> <<"error", what>>, keyboard |-> "none"] \in Range(t.msgs)

(* C6. A relay answered with status 200 (with a body that parses, and     *)
(* unless sending the main menu itself fails) is always followed by the    *)
(* reset of the session (task and language cleared) and by the main-menu   *)
(* message, also when sending the formatted text, the plain-text fallback  *)
(* or the voice attachment fails.                                          *)
C6_SuccessResetsAndShowsMenu ==
    (IsFile(turn) /\ Answered(turn, 200)
       /\ ~Reported(turn, "json") /\ ~Reported(turn, "reply_text"))
      => /\ user_data = [task |-> "<absent>", lang |-> "<absent>"]
         /\ [text |-> <<"done">>, keyboard |-> "main_menu"] \in Range(turn.msgs)

(* C7. A failed relay (status 429, another status that is not 200, or no   *)
(* response) leaves the session as it was: in bot.py the conversation      *)
(* stays in UPLOADING with the same type and language, so that the next    *)
(* document is relayed again.                                              *)
C7_FailedRelayKeepsSession ==
    [][(bot_turn'.handler = "handle_document" /\ RelayFailed(bot_turn'))
          => (conv' = conv /\ bot_user_data' = bot_user_data)]_vars

(* C8. After the "back to menu" click and after /start or /menu the        *)
(* session holds no task and no language.                                  *)
C8_MenuDiscardsSelection ==
    ((IsMenuClick(turn) \/ turn.handler = "start") /\ Completed(turn))
      => (user_data.task = "<absent>" /\ user_data.lang = "<absent>")

\* The click is invalid for the session it meets.
C9_Invalid ==
    \/ IsTaskClick(turn') /\ turn'.data[2] \notin Tasks
    \/ IsLangClick(turn') /\ turn'.data[2] \notin Languages
    \/ IsLangClick(turn') /\ user_data.task = "<absent>"

(* C9. A click that is invalid for the session (a task_ or lang_ payload   *)
(* whose code is not in the enum, or a language selection while no task is *)
(* chosen) leaves task and language unchanged.                             *)
C9_InvalidClickKeepsSession ==
    [][C9_Invalid => user_data' = user_data]_vars

\* The durable user_state row and user_data both hold a task, and disagree.
C10_Disagree ==
    supabase /\ user_state \in Tasks /\ user_data.task \notin {"<absent>", user_state}

----------------------------------------------------------------------------
\* The selections of the keyboards.
C11_Selections ==
    {<<"task", t>> : t \in {"analysis", "medication", "prescription", "radiography"}}
      \cup {<<"lang", l>> : l \in {"Arabic", "Spanish", "English", "French"}}

\* button_callback for this click while every call to the durable store
\* raises and Telegram works.
C11_Outage(data) ==
    button_callback(user_data, users, data,
                    [answerOK |-> TRUE, dbOK |-> FALSE, sendOK |-> TRUE],
                    supabase, user_state)

(* C11. With a durable store configured and unreachable (every call to it  *)
(* raises), a task selection and a language selection made in any          *)
(* reachable session still store the selection in user_data and still      *)
(* deliver the turn's message to the user.                                 *)
C11_OutageKeepsTurn ==
    supabase =>
      \A data \in C11_Selections :
         /\ ~C11_Outage(data).raised
         /\ Len(C11_Outage(data).msgs) = 1
         /\ data[1] = "task" => C11_Outage(data).ud.task = data[2]
         /\ data[1] = "lang" => C11_Outage(data).ud.lang = data[2]

----------------------------------------------------------------------------
\* The messages of the turn that carry analysis text.
C12_AnalysisParts(t) ==
    SelectSeq(t.msgs, LAMBDA m : m.text[1] = "analysis")

\* ceil(n / 4000)
C12_Ceil(n) == (n + 3999) \div 4000

(* C12. An analysis text of N > 4000 characters that is delivered is       *)
(* delivered as ceil(N / 4000) messages, never as a single one.            *)
C12_LongTextIsChunked ==
    (IsFile(turn) /\ Answered(turn, 200) /\ turn.calls[1].length > 4000
       /\ C12_AnalysisParts(turn) # <<>>)
      => Len(C12_AnalysisParts(turn)) = C12_Ceil(turn.calls[1].length)

\* The slices of handle_document's turn cover [0, n) in order, each of at
\* most 4000 characters, in ceil(n / 4000) messages.
C12_BotChunksCover ==
    LET parts == C12_AnalysisParts(bot_turn)
        n     == bot_turn.calls[1].length
    IN  (bot_turn.handler = "handle_document" /\ parts # <<>> /\ n > 4000)
          => /\ Len(parts) = C12_Ceil(n)
             /\ parts[1].keyboard[1] = 0
             /\ parts[Len(parts)].keyboard[2] = n
             /\ \A i \in 1..Len(parts) :
                   /\ parts[i].keyboard[2] - parts[i].keyboard[1] <= 4000
                   /\ parts[i].keyboard[2] > parts[i].keyboard[1]
                   /\ i > 1 => parts[i].keyboard[1] = parts[i-1].keyboard[2]

----------------------------------------------------------------------------
(* C13. A relay answered with status 429 yields the rate-limit message     *)
(* ("wait about 60 seconds") and not the generic API-error message; in     *)
(* bot.py: the turn of handle_document for a 429 response.                 *)
C13_RateLimitHasOwnMessage ==
    (bot_turn.handler = "handle_document" /\ Answered(bot_turn, 429))
      => /\ [text |-> <<"quota exceeded">>, keyboard |-> "none"]
               \in Range(bot_turn.msgs)
         /\ [text |-> <<"api error">>, keyboard |-> "none"]
               \notin Range(bot_turn.msgs)

\* index.py: 429 is answered with the quota message alone, another status
\* with the API error naming the status, no response with the exception's
\* text.
C13_IndexOutcomes ==
    (IsFile(turn) /\ Len(turn.calls) = 1)
      => /\ Answered(turn, 429) =>
               turn.msgs[2] = [text |-> <<"quota exceeded">>, keyboard |-> "none"]
         /\ Answered(turn, 500) =>
               turn.msgs[2] = [text |-> <<"api error", "500">>, keyboard |-> "none"]
         /\ ~turn.calls[1].answered =>
               turn.msgs[2] = [text |-> <<"error", "network">>, keyboard |-> "none"]

----------------------------------------------------------------------------
\* webhook always returns one of its status values.
C14_ReturnsStatus ==
    response.status \in {"none", "ok", "already processed", "error"}

(* C14. webhook returns a status value for every update, and a call that   *)
(* ends in the except branch (the body does not parse, or initialize       *)
(* raises) sends the user an apology: the latest messages are then that    *)
(* apology.                                                                *)
C14_FailureIsApologised ==
    /\ [](response.status \in {"none", "ok", "already processed", "error"})
    /\ [][response'.status = "error" =>
             /\ turn' # turn
             /\ [text |-> <<"apology">>, keyboard |-> "none"]
                   \in Range(turn'.msgs)]_vars

----------------------------------------------------------------------------
(* C15. In every reachable session, after any sequence of /start, /menu,   *)
(* clicks and documents: a language is held only while a task is held.     *)
C15_LanguageOnlyWithTask ==
    user_data.lang # "<absent>" => user_data.task # "<absent>"

----------------------------------------------------------------------------
(* C16. A document that arrives while the task or the language is not yet  *)
(* chosen is relayed on read-analysis in English, whichever of the two is  *)
(* missing.                                                                *)
C16_OutOfOrderUsesDefaults ==
    [][(GotBytes(turn')
          /\ (user_data.task = "<absent>" \/ user_data.lang = "<absent>"))
        => /\ Len(turn'.calls) = 1
           /\ turn'.calls[1].endpoint = <<"/lab/read-", "analysis">>
           /\ turn'.calls[1].language = "English"]_vars

----------------------------------------------------------------------------
(* C17. A file message that carries neither a photo nor a document is a    *)
(* no-op in every session: user_data is unchanged, no message is sent, no  *)
(* call to the analysis service is made, and the handler does not raise.   *)
C17_NoPayloadIsNoOp ==
    [][(IsFile(turn') /\ ~HasPayload(turn'))
        => /\ user_data' = user_data
           /\ turn'.msgs = <<>>
           /\ turn'.calls = <<>>
           /\ ~turn'.raised]_vars

\* Such a message met a session that holds a task and a language.
C17_Witness ==
    /\ IsFile(turn) /\ ~HasPayload(turn)
    /\ user_data.task = "radiography" /\ user_data.lang = "Spanish"
    /\ turn.msgs = <<>> /\ turn.calls = <<>>

----------------------------------------------------------------------------
\* The coroutine has passed the membership test of line 284.
C18_Passed(c) == requests[c].pc \in {"initialize", "process_update"}

(* C18. Of the deliveries of one update id that the container handles at   *)
(* the same time, at most one passes the membership test and goes on to    *)
(* the handlers.                                                           *)
C18_OneDeliveryPasses ==
    \A c \in Coroutines : \A d \in Coroutines :
       (c # d /\ C18_Passed(c) /\ C18_Passed(d))
          => requests[c].update_id # requests[d].update_id

----------------------------------------------------------------------------
(* C19. On a fresh container at most one call of tg_app.initialize() is    *)
(* started, under every interleaving: in particular two calls of it are    *)
(* never in progress at once.                                              *)
C19_InitializedOnce ==
    \A c \in Coroutines : \A d \in Coroutines :
       (requests[c].pc = "initialize" /\ requests[d].pc = "initialize") => c = d

----------------------------------------------------------------------------
\* The step ends a suspended handle_file run whose call was answered 200.
C20_RelayCompletes ==
    /\ in_flight.active /\ ~in_flight'.active
    /\ IsFile(turn') /\ Answered(turn', 200)

(* C20. A task or a language that the user selects while handle_file       *)
(* awaits the analysis service is still in user_data after the call has    *)
(* been answered with status 200.                                          *)
C20_SelectionSurvivesRelay ==
    [][C20_RelayCompletes =>
         /\ user_data.task # in_flight.ud.task => user_data'.task = user_data.task
         /\ user_data.lang # in_flight.ud.lang => user_data'.lang = user_data.lang]_vars

====
